---- MODULE Spec2Model ----
(***************************************************************************)
(* Model of filter_users.py: the loader, the three filters, the presenter  *)
(* and the interactive controller main().                                  *)
(*                                                                         *)
(* Python strings are sequences of one-character strings, so that lower(), *)
(* strip(), str() and int() are computed character by character.           *)
(* JSON values are tagged records [t, s, n]: t is the Python type of the   *)
(* value, s its text when it is a str, n its number when it is an int, a   *)
(* float (n stands for n.0) or a bool (1 = True, 0 = False).               *)
(***************************************************************************)
EXTENDS Integers, Sequences, FiniteSets, TLC

VARIABLES
    file,        \* what open()/json.load() will find at DEFAULT_USERS_FILE
    users,       \* the loaded collection (argument of the filters / presenter)
    pc,          \* position of the run
    choice,      \* Optional[str] returned by get_choice
    value,       \* Optional[str] returned by get_value_for_choice
    results,     \* list returned by the last filter call
    out,         \* arguments of the print() calls so far, in order
    prompts,     \* prompts written by input() so far, in order
    calls,       \* filter / presenter invocations so far, in order
    consumed,    \* what the input() calls so far have read, in order
    exitStatus,  \* process exit status, NoExit while the process runs
    uncaught     \* name of the exception that left main() uncaught, or "none"

vars == <<file, users, pc, choice, value, results, out, prompts, calls,
          consumed, exitStatus, uncaught>>

\* Longest user collection explored.
MaxUsers == 2

NoExit == -1

----------------------------------------------------------------------------
\* Literals of the program

DEFAULT_USERS_FILE ==
    <<"u", "s", "e", "r", "s", ".", "j", "s", "o", "n">>

MsgCancelled ==
    <<"\n", "I", "n", "p", "u", "t", " ", "c", "a", "n", "c", "e", "l", "l", "e", "d", ".">>

MsgInvalidChoice ==
    <<"I", "n", "v", "a", "l", "i", "d", " ", "c", "h", "o", "i", "c", "e", ".", " ", "P", "l", "e", "a", "s", "e", " ", "e", "n", "t", "e", "r", " ", "'", "n", "a", "m", "e", "'", ",", " ", "'", "a", "g", "e", "'", ",", " ", "o", "r", " ", "'", "e", "m", "a", "i", "l", "'", ".">>

MsgNoValue ==
    <<"N", "o", " ", "v", "a", "l", "u", "e", " ", "p", "r", "o", "v", "i", "d", "e", "d", ";", " ", "e", "x", "i", "t", "i", "n", "g", ".">>

MsgInvalidInt ==
    <<"P", "l", "e", "a", "s", "e", " ", "e", "n", "t", "e", "r", " ", "a", " ", "v", "a", "l", "i", "d", " ", "i", "n", "t", "e", "g", "e", "r", " ", "f", "o", "r", " ", "a", "g", "e", ".">>

MsgNoUsers ==
    <<"N", "o", " ", "u", "s", "e", "r", "s", " ", "f", "o", "u", "n", "d", ".">>

MsgNotFound ==
    <<"U", "s", "e", "r", "s", " ", "f", "i", "l", "e", " ", "n", "o", "t", " ", "f", "o", "u", "n", "d", ":", " ">> \o DEFAULT_USERS_FILE

MsgNotJSON ==
    <<"U", "s", "e", "r", "s", " ", "f", "i", "l", "e", " ", "i", "s", " ", "n", "o", "t", " ", "v", "a", "l", "i", "d", " ", "J", "S", "O", "N", ":", " ">> \o DEFAULT_USERS_FILE

PromptChoice ==
    <<"W", "h", "a", "t", " ", "w", "o", "u", "l", "d", " ", "y", "o", "u", " ", "l", "i", "k", "e", " ", "t", "o", " ", "f", "i", "l", "t", "e", "r", " ", "b", "y", "?", " ", "(", "E", "n", "t", "e", "r", " ", "'", "n", "a", "m", "e", "'", ",", " ", "'", "a", "g", "e", "'", ",", " ", "o", "r", " ", "'", "e", "m", "a", "i", "l", "'", ")", ":", " ">>

PromptName ==
    <<"E", "n", "t", "e", "r", " ", "a", " ", "n", "a", "m", "e", " ", "t", "o", " ", "f", "i", "l", "t", "e", "r", " ", "u", "s", "e", "r", "s", ":", " ">>

PromptAge ==
    <<"E", "n", "t", "e", "r", " ", "a", "n", " ", "a", "g", "e", " ", "t", "o", " ", "f", "i", "l", "t", "e", "r", " ", "u", "s", "e", "r", "s", ":", " ">>

PromptEmail ==
    <<"E", "n", "t", "e", "r", " ", "a", "n", " ", "e", "m", "a", "i", "l", " ", "t", "o", " ", "f", "i", "l", "t", "e", "r", " ", "u", "s", "e", "r", "s", ":", " ">>

ChoiceName == <<"n", "a", "m", "e">>
ChoiceAge == <<"a", "g", "e">>
ChoiceEmail == <<"e", "m", "a", "i", "l">>

\* choices = ("name", "age", "email")
choices == {ChoiceName, ChoiceAge, ChoiceEmail}

----------------------------------------------------------------------------
\* Python values

Absent == [t |-> "absent", s |-> <<>>, n |-> 0]
PyNone == [t |-> "null", s |-> <<>>, n |-> 0]
StrV(s) == [t |-> "str", s |-> s, n |-> 0]
IntV(n) == [t |-> "int", s |-> <<>>, n |-> n]
FloatV(n) == [t |-> "float", s |-> <<>>, n |-> n]
BoolV(n) == [t |-> "bool", s |-> <<>>, n |-> n]

\* Optional[str] results of the prompt functions
NoneStr == [some |-> FALSE, s |-> <<>>]
SomeStr(s) == [some |-> TRUE, s |-> s]

\* dict.get(key): None when the key is absent
Get(u, key) == IF u[key].t = "absent" THEN PyNone ELSE u[key]

\* dict.get(key, ""): the empty str when the key is absent
GetOrEmpty(u, key) == IF u[key].t = "absent" THEN StrV(<<>>) ELSE u[key]

----------------------------------------------------------------------------
\* str methods and conversions

UpperCase == <<"A", "B", "C", "D", "E", "F", "G", "H", "I", "J", "K", "L", "M", "N", "O", "P", "Q", "R", "S", "T", "U", "V", "W", "X", "Y", "Z">>
LowerCase == <<"a", "b", "c", "d", "e", "f", "g", "h", "i", "j", "k", "l", "m", "n", "o", "p", "q", "r", "s", "t", "u", "v", "w", "x", "y", "z">>
Digits == <<"0", "1", "2", "3", "4", "5", "6", "7", "8", "9">>
Whitespace == {" ", "\t", "\n"}

LowerChar(c) ==
    IF \E i \in 1..Len(UpperCase) : UpperCase[i] = c
    THEN LowerCase[CHOOSE i \in 1..Len(UpperCase) : UpperCase[i] = c]
    ELSE c

\* str.lower()
Lower(s) == [i \in 1..Len(s) |-> LowerChar(s[i])]

RECURSIVE LStrip(_)
LStrip(s) ==
    IF s # <<>> /\ s[1] \in Whitespace THEN LStrip(Tail(s)) ELSE s

RECURSIVE RStrip(_)
RStrip(s) ==
    IF s # <<>> /\ s[Len(s)] \in Whitespace
    THEN RStrip(SubSeq(s, 1, Len(s) - 1))
    ELSE s

\* str.strip()
Strip(s) == RStrip(LStrip(s))

IsDigit(c) == \E i \in 1..Len(Digits) : Digits[i] = c
DigitVal(c) == (CHOOSE i \in 1..Len(Digits) : Digits[i] = c) - 1

RECURSIVE NatToStr(_)
NatToStr(n) ==
    IF n < 10 THEN <<Digits[n + 1]>>
    ELSE NatToStr(n \div 10) \o <<Digits[(n % 10) + 1]>>

IntToStr(n) == IF n < 0 THEN <<"-">> \o NatToStr(0 - n) ELSE NatToStr(n)

\* str(x)
PyStr(v) ==
    CASE v.t = "str" -> v.s
      [] v.t = "int" -> IntToStr(v.n)
      [] v.t = "float" -> IntToStr(v.n) \o <<".", "0">>
      [] v.t = "bool" -> IF v.n = 1 THEN <<"T", "r", "u", "e">> ELSE <<"F", "a", "l", "s", "e">>
      [] OTHER -> <<"N", "o", "n", "e">>

RECURSIVE DigitsValue(_, _)
DigitsValue(s, acc) ==
    IF s = <<>> THEN acc
    ELSE IF s[1] = "_" THEN DigitsValue(Tail(s), acc)
    ELSE DigitsValue(Tail(s), 10 * acc + DigitVal(s[1]))

\* int(s) for a str s: an optional sign, then digits, single underscores
\* allowed between digits; ok = FALSE stands for ValueError.
ParseInt(s) ==
    LET signed == s # <<>> /\ s[1] \in {"+", "-"}
        body == IF signed THEN Tail(s) ELSE s
        wellFormed ==
            /\ body # <<>>
            /\ IsDigit(body[1])
            /\ IsDigit(body[Len(body)])
            /\ \A i \in 1..Len(body) : IsDigit(body[i]) \/ body[i] = "_"
            /\ \A i \in 1..(Len(body) - 1) :
                  ~(body[i] = "_" /\ body[i + 1] = "_")
        magnitude == DigitsValue(body, 0)
    IN  IF ~wellFormed THEN [ok |-> FALSE, n |-> 0]
        ELSE [ok |-> TRUE,
              n |-> IF signed /\ s[1] = "-" THEN 0 - magnitude ELSE magnitude]

\* x == age for an int age (True == 1 and 30.0 == 30 in Python)
NumEq(v, age) ==
    /\ v.t \in {"int", "float", "bool"}
    /\ v.n = age

\* isinstance(x, int): bool is a subclass of int
IsInstanceInt(v) == v.t \in {"int", "bool"}

----------------------------------------------------------------------------
\* Filters and presenter

Reverse(q) == [i \in 1..Len(q) |-> q[Len(q) + 1 - i]]

\* Variant of filter_users_by_name that returns the matches last to first.
filter_users_by_name_reversed(us, name) ==
    LET name_lower == Lower(name)
        Match(u) == Lower(PyStr(GetOrEmpty(u, "name"))) = name_lower
    IN  Reverse(SelectSeq(us, Match))

\* [u for u in users if str(u.get("name", "")).lower() == name_lower]
filter_users_by_name(us, name) ==
    LET name_lower == Lower(name)
        Match(u) == Lower(PyStr(GetOrEmpty(u, "name"))) = name_lower
    IN  SelectSeq(us, Match)

\* [u for u in users if isinstance(u.get("age"), int) and u["age"] == age]
filter_users_by_age(us, age) ==
    LET Match(u) == IsInstanceInt(Get(u, "age")) /\ NumEq(u["age"], age)
    IN  SelectSeq(us, Match)

\* [u for u in users if str(u.get("email", "")).lower() == email_lower]
filter_users_by_email(us, email) ==
    LET email_lower == Lower(email)
        Match(u) == Lower(PyStr(GetOrEmpty(u, "email"))) = email_lower
    IN  SelectSeq(us, Match)

\* the f-string of print_users
FormatUser(user) ==
    <<"i", "d", ":", " ">> \o PyStr(Get(user, "id")) \o
    <<",", " ", "n", "a", "m", "e", ":", " ">> \o PyStr(Get(user, "name")) \o
    <<",", " ", "a", "g", "e", ":", " ">> \o PyStr(Get(user, "age")) \o
    <<",", " ", "e", "m", "a", "i", "l", ":", " ">> \o PyStr(Get(user, "email"))

\* Variant of print_users without the `if not users` branch.
print_users_no_empty_case(us) ==
    [i \in 1..Len(us) |-> FormatUser(us[i])]

\* the print() calls of print_users(us), in order
print_users(us) ==
    IF us = <<>> THEN <<MsgNoUsers>>
    ELSE [i \in 1..Len(us) |-> FormatUser(us[i])]

----------------------------------------------------------------------------
\* Data explored: user records, collections, files and prompt inputs

User(id, name, age, email) ==
    [id |-> id, name |-> name, age |-> age, email |-> email]

\* The two records of the documented scenario, then records with missing,
\* null and non-string fields.
SampleUsers ==
    { User(IntV(1), StrV(<<"A", "n", "n">>), IntV(30), StrV(<<"A", "@", "x", ".", "c", "o", "m">>)),
      User(IntV(2), StrV(<<"a", "n", "n">>), IntV(41), StrV(<<"a", "n", "n", "@", "x", ".", "c", "o", "m">>)),
      User(IntV(3), PyNone, BoolV(1), Absent),
      User(IntV(4), Absent, StrV(<<"3", "0">>), PyNone),
      User(IntV(5), IntV(30), FloatV(30), StrV(<<>>)),
      User(Absent, StrV(<<>>), Absent, StrV(<<"a", "@", "X", ".", "C", "O", "M">>)),
      User(IntV(7), StrV(<<"B", "o", "b">>), IntV(1), StrV(<<"b", "o", "b", "@", "x", ".", "c", "o", "m">>)) }

RECURSIVE SeqsUpTo(_, _)
SeqsUpTo(S, n) ==
    IF n = 0 THEN {<<>>}
    ELSE LET shorter == SeqsUpTo(S, n - 1)
         IN  shorter \cup
             {Append(q, x) : q \in {r \in shorter : Len(r) = n - 1}, x \in S}

Collections == SeqsUpTo(SampleUsers, MaxUsers)

\* Outcomes of open() and json.load() on the users file
LoadFailures ==
    {"FileNotFoundError", "IsADirectoryError", "JSONDecodeError",
     "UnicodeDecodeError"}

Files ==
    {[status |-> "ok", content |-> U] : U \in Collections} \cup
    {[status |-> f, content |-> <<>>] : f \in LoadFailures}

\* A prompt either is cancelled (EOFError / KeyboardInterrupt) or reads a line
Cancel == [cancel |-> TRUE, text |-> <<>>]
Line(text) == [cancel |-> FALSE, text |-> text]

ChoiceTexts ==
    { <<"n", "a", "m", "e">>, <<" ", "N", "a", "m", "e", " ">>, <<"A", "G", "E">>, <<"a", "g", "e", "\t">>, <<"e", "m", "a", "i", "l">>, <<"E", "m", "a", "i", "l">>,
      <<>>, <<" ", " ">>, <<"c", "o", "l", "o", "r">>, <<"n", "a", "m", "e", "s">> }

ValueTexts ==
    { <<"A", "N", "N">>, <<" ", "a", "n", "n", " ">>, <<"B", "o", "b">>, <<>>, <<" ", " ", " ">>, <<"n", "o", "n", "e">>, <<"3", "0">>,
      <<" ", "3", "0">>, <<"+", "3", "0">>, <<"3", "_", "0">>, <<"-", "1">>, <<"1">>, <<"4", "1">>, <<"t", "h", "i", "r", "t", "y">>,
      <<"3", "0", ".", "0">>, <<"3", "_", "_", "0">>, <<"t", "r", "u", "e">>, <<"a", "@", "x", ".", "c", "o", "m">>, <<"A", "N", "N", "@", "X", ".", "C", "O", "M">> }

ChoiceInputs == {Cancel} \cup {Line(t) : t \in ChoiceTexts}
ValueInputs == {Cancel} \cup {Line(t) : t \in ValueTexts}

\* Arguments of the direct filter calls
NameArgs == {Strip(t) : t \in ValueTexts}
AgeArgs == {30, 41, 1, 0, -1}

\* One invocation of a filter or of the presenter
Call(fn, us, s, n) == [fn |-> fn, users |-> us, s |-> s, n |-> n]

----------------------------------------------------------------------------
\* The interactive controller main()

Init ==
    /\ file \in Files
    /\ users = <<>>
    /\ pc = "start"
    /\ choice = NoneStr
    /\ value = NoneStr
    /\ results = <<>>
    /\ out = <<>>
    /\ prompts = <<>>
    /\ calls = <<>>
    /\ consumed = <<>>
    /\ exitStatus = NoExit
    /\ uncaught = "none"

\* main, the try block around load_users()
LoadUsers ==
    /\ pc = "start"
    /\ IF file.status = "ok"
       THEN /\ users' = file.content
            /\ pc' = "AwaitChoice"
            /\ UNCHANGED <<out, exitStatus, uncaught>>
       ELSE IF file.status = "FileNotFoundError"
       THEN /\ out' = Append(out, MsgNotFound)
            /\ exitStatus' = 1
            /\ pc' = "Failed"
            /\ UNCHANGED <<users, uncaught>>
       ELSE IF file.status = "JSONDecodeError"
       THEN /\ out' = Append(out, MsgNotJSON)
            /\ exitStatus' = 1
            /\ pc' = "Failed"
            /\ UNCHANGED <<users, uncaught>>
       ELSE \* no except clause matches: the exception leaves main()
            /\ uncaught' = file.status
            /\ exitStatus' = 1
            /\ pc' = "Failed"
            /\ UNCHANGED <<users, out>>
    /\ UNCHANGED <<file, choice, value, results, prompts, calls, consumed>>

\* Variant of get_choice that omits .lower() on the line read.
get_choice_case_sensitive(inp) ==
    IF inp.cancel
    THEN [ret |-> NoneStr, printed |-> <<MsgCancelled>>]
    ELSE LET c == Strip(inp.text)
         IN  IF c \notin choices
             THEN [ret |-> NoneStr, printed |-> <<MsgInvalidChoice>>]
             ELSE [ret |-> SomeStr(c), printed |-> <<>>]

\* get_choice(): the value returned and the messages printed
get_choice(inp) ==
    IF inp.cancel
    THEN [ret |-> NoneStr, printed |-> <<MsgCancelled>>]
    ELSE LET c == Lower(Strip(inp.text))
         IN  IF c \notin choices
             THEN [ret |-> NoneStr, printed |-> <<MsgInvalidChoice>>]
             ELSE [ret |-> SomeStr(c), printed |-> <<>>]

\* main: choice = get_choice(); if not choice: return
GetChoice(inp) ==
    /\ pc = "AwaitChoice"
    /\ LET r == get_choice(inp)
       IN  /\ prompts' = Append(prompts, PromptChoice)
           /\ consumed' = Append(consumed, inp)
           /\ out' = out \o r.printed
           /\ choice' = r.ret
           /\ IF ~r.ret.some \/ r.ret.s = <<>>
              THEN /\ pc' = IF inp.cancel THEN "Cancelled" ELSE "Ended"
                   /\ exitStatus' = 0
              ELSE /\ pc' = "AwaitValue"
                   /\ UNCHANGED exitStatus
    /\ UNCHANGED <<file, users, value, results, calls, uncaught>>

\* the prompt get_value_for_choice(choice) passes to input()
ValuePrompt(ch) ==
    IF ch = ChoiceName THEN PromptName
    ELSE IF ch = ChoiceAge THEN PromptAge
    ELSE PromptEmail

\* get_value_for_choice(choice): the value returned and the messages printed
get_value_for_choice(ch, inp) ==
    IF inp.cancel
    THEN [ret |-> NoneStr, printed |-> <<MsgCancelled>>]
    ELSE [ret |-> SomeStr(Strip(inp.text)), printed |-> <<>>]

\* Variant of NoValue that tests `value is None` only.
NoValue_none_only(v) == ~v.some

\* main: value is None or value == ""
NoValue(v) == ~v.some \/ v.s = <<>>

\* main: value = get_value_for_choice(choice); the "no value" return
GetValue(inp) ==
    /\ pc = "AwaitValue"
    /\ LET r == get_value_for_choice(choice.s, inp)
       IN  /\ prompts' = Append(prompts, ValuePrompt(choice.s))
           /\ consumed' = Append(consumed, inp)
           /\ value' = r.ret
           /\ IF NoValue(r.ret)
              THEN /\ out' = (out \o r.printed) \o <<MsgNoValue>>
                   /\ pc' = IF inp.cancel THEN "Cancelled" ELSE "Ended"
                   /\ exitStatus' = 0
              ELSE /\ out' = out \o r.printed
                   /\ pc' = "Filtering"
                   /\ UNCHANGED exitStatus
    /\ UNCHANGED <<file, users, choice, results, calls, uncaught>>

\* Variant of Dispatch in which a failed int(value) falls back to age 0
\* instead of returning.
Dispatch_fallback_age(ch, val, us) ==
    IF ch = ChoiceName
    THEN [ok |-> TRUE,
          call |-> Call("filter_users_by_name", us, val, 0),
          results |-> filter_users_by_name(us, val)]
    ELSE IF ch = ChoiceAge
    THEN LET age == ParseInt(val)
         IN  [ok |-> TRUE,
              call |-> Call("filter_users_by_age", us, <<>>, age.n),
              results |-> filter_users_by_age(us, age.n)]
    ELSE [ok |-> TRUE,
          call |-> Call("filter_users_by_email", us, val, 0),
          results |-> filter_users_by_email(us, val)]

\* main, the if/elif/else on choice: the filter call made and its result,
\* or ok = FALSE when int(value) raises ValueError
Dispatch(ch, val, us) ==
    IF ch = ChoiceName
    THEN [ok |-> TRUE,
          call |-> Call("filter_users_by_name", us, val, 0),
          results |-> filter_users_by_name(us, val)]
    ELSE IF ch = ChoiceAge
    THEN LET age == ParseInt(val)
         IN  IF ~age.ok
             THEN [ok |-> FALSE,
                   call |-> Call("none", <<>>, <<>>, 0),
                   results |-> <<>>]
             ELSE [ok |-> TRUE,
                   call |-> Call("filter_users_by_age", us, <<>>, age.n),
                   results |-> filter_users_by_age(us, age.n)]
    ELSE [ok |-> TRUE,
          call |-> Call("filter_users_by_email", us, val, 0),
          results |-> filter_users_by_email(us, val)]

\* Variant of Filtering that ends with sys.exit(1) on an invalid integer.
Filtering_exit_on_invalid ==
    /\ pc = "Filtering"
    /\ LET d == Dispatch(choice.s, value.s, users)
       IN  IF ~d.ok
           THEN /\ out' = Append(out, MsgInvalidInt)
                /\ pc' = "Ended"
                /\ exitStatus' = 1
                /\ UNCHANGED <<results, calls>>
           ELSE /\ results' = d.results
                /\ calls' = calls \o
                      <<d.call, Call("print_users", d.results, <<>>, 0)>>
                /\ out' = out \o print_users(d.results)
                /\ pc' = "Done"
                /\ exitStatus' = 0
    /\ UNCHANGED <<file, users, choice, value, prompts, consumed, uncaught>>

\* main: dispatch on choice, then print_users(results)
Filtering ==
    /\ pc = "Filtering"
    /\ LET d == Dispatch(choice.s, value.s, users)
       IN  IF ~d.ok
           THEN /\ out' = Append(out, MsgInvalidInt)
                /\ pc' = "Ended"
                /\ UNCHANGED <<results, calls>>
           ELSE /\ results' = d.results
                /\ calls' = calls \o
                      <<d.call, Call("print_users", d.results, <<>>, 0)>>
                /\ out' = out \o print_users(d.results)
                /\ pc' = "Done"
    /\ exitStatus' = 0
    /\ UNCHANGED <<file, users, choice, value, prompts, consumed, uncaught>>

Next ==
    \/ LoadUsers
    \/ \E inp \in ChoiceInputs : GetChoice(inp)
    \/ \E inp \in ValueInputs : GetValue(inp)
    \/ Filtering

Spec == Init /\ [][Next]_vars

----------------------------------------------------------------------------
\* Direct calls of the filters and of the presenter on a collection

InitCalls ==
    /\ file = [status |-> "ok", content |-> <<>>]
    /\ users \in Collections
    /\ pc = "call"
    /\ choice = NoneStr
    /\ value = NoneStr
    /\ results = <<>>
    /\ out = <<>>
    /\ prompts = <<>>
    /\ calls = <<>>
    /\ consumed = <<>>
    /\ exitStatus = NoExit
    /\ uncaught = "none"

CallFilterByName(name) ==
    /\ pc = "call"
    /\ results' = filter_users_by_name(users, name)
    /\ calls' = Append(calls, Call("filter_users_by_name", users, name, 0))
    /\ pc' = "returned"
    /\ UNCHANGED <<file, users, choice, value, out, prompts, consumed,
                   exitStatus, uncaught>>

CallFilterByAge(age) ==
    /\ pc = "call"
    /\ results' = filter_users_by_age(users, age)
    /\ calls' = Append(calls, Call("filter_users_by_age", users, <<>>, age))
    /\ pc' = "returned"
    /\ UNCHANGED <<file, users, choice, value, out, prompts, consumed,
                   exitStatus, uncaught>>

CallFilterByEmail(email) ==
    /\ pc = "call"
    /\ results' = filter_users_by_email(users, email)
    /\ calls' = Append(calls, Call("filter_users_by_email", users, email, 0))
    /\ pc' = "returned"
    /\ UNCHANGED <<file, users, choice, value, out, prompts, consumed,
                   exitStatus, uncaught>>

CallPrintUsers ==
    /\ pc = "call"
    /\ out' = out \o print_users(users)
    /\ calls' = Append(calls, Call("print_users", users, <<>>, 0))
    /\ pc' = "printed"
    /\ UNCHANGED <<file, users, choice, value, results, prompts, consumed,
                   exitStatus, uncaught>>

NextCalls ==
    \/ \E name \in NameArgs : CallFilterByName(name)
    \/ \E age \in AgeArgs : CallFilterByAge(age)
    \/ \E email \in NameArgs : CallFilterByEmail(email)
    \/ CallPrintUsers

SpecCalls == InitCalls /\ [][NextCalls]_vars

TypeOK ==
    /\ exitStatus \in {NoExit, 0, 1}
    /\ Len(users) <= MaxUsers

----------------------------------------------------------------------------
\* Properties

\* The filter call of the run (the first invocation recorded)
FilterCall == calls[1]

\* The last invocation recorded
LastCall == calls[Len(calls)]

Terminal == {"Done", "Ended", "Cancelled", "Failed"}

\* a is an order-preserving subsequence of b
IsSubseq(a, b) ==
    \E f \in [1..Len(a) -> 1..Len(b)] :
        /\ \A i \in 1..Len(a) : a[i] = b[f[i]]
        /\ \A i \in 1..Len(a), j \in 1..Len(a) : i < j => f[i] < f[j]

\* The name of record u, case-insensitively, is v: a missing name counts as
\* the empty string, a name that is not a string equals no string.
NameIs(u, v) ==
    IF u.name.t = "absent" THEN Lower(v) = <<>>
    ELSE u.name.t = "str" /\ Lower(u.name.s) = Lower(v)

\* C1: filter_users_by_name(U, v) returns exactly the records of U whose
\* name, compared case-insensitively, equals v (a missing name being the
\* empty string), in the original order, and no other record.
C1_NameFilterExact ==
    (calls # <<>> /\ FilterCall.fn = "filter_users_by_name") =>
        LET Match(u) == NameIs(u, FilterCall.s)
        IN  results = SelectSeq(FilterCall.users, Match)

\* C2: filter_users_by_age(U, a) returns exactly the records whose age is an
\* integer equal to a, in the original order; never a record whose age is a
\* string, a float, a boolean or absent.
C2_AgeFilterIntegersOnly ==
    (calls # <<>> /\ FilterCall.fn = "filter_users_by_age") =>
        LET Match(u) == u.age.t = "int" /\ u.age.n = FilterCall.n
        IN  results = SelectSeq(FilterCall.users, Match)

\* C3: a run cancelled at either prompt reports the cancellation notice and
\* nothing after it, invokes no filter and presents nothing.
C3_CancelReportedOnce ==
    pc = "Cancelled" =>
        /\ out = <<MsgCancelled>>
        /\ calls = <<>>
        /\ exitStatus = 0

\* C4: when the loader fails, no prompt is issued, no filter or presenter is
\* invoked, one message naming the file and the failure kind is printed and
\* the exit status is 1.
C4_LoaderFailureReported ==
    (file.status # "ok" /\ pc # "start") =>
        /\ pc = "Failed"
        /\ prompts = <<>>
        /\ consumed = <<>>
        /\ calls = <<>>
        /\ exitStatus = 1
        /\ Len(out) = 1
        /\ out[1] \in {MsgNotFound, MsgNotJSON}
        /\ file.status = "FileNotFoundError" => out[1] = MsgNotFound
        /\ file.status = "JSONDecodeError" => out[1] = MsgNotJSON

\* C5: once the users file has loaded, the run ends with exit status 0 on
\* every path (presentation, cancellation at either prompt, invalid choice,
\* empty value, invalid integer); exit status 1 occurs only when the loader
\* failed.
C5_ExitStatus ==
    /\ (file.status = "ok" /\ pc \in Terminal) => exitStatus = 0
    /\ pc \in {"Done", "Ended", "Cancelled"} => exitStatus = 0
    /\ exitStatus = 1 => (file.status # "ok" /\ pc = "Failed")
    /\ pc \notin Terminal => exitStatus = NoExit

W5_InvalidIntegerExitsZero ==
    /\ pc = "Ended"
    /\ out = <<MsgInvalidInt>>
    /\ exitStatus = 0

\* The line the presenter owes for record u: None marks a missing field
Shown(v) == IF v.t = "absent" THEN <<"N", "o", "n", "e">> ELSE PyStr(v)

ExpectedLine(u) ==
    <<"i", "d", ":", " ">> \o Shown(u.id) \o <<",", " ", "n", "a", "m", "e", ":", " ">> \o Shown(u.name) \o
    <<",", " ", "a", "g", "e", ":", " ">> \o Shown(u.age) \o <<",", " ", "e", "m", "a", "i", "l", ":", " ">> \o Shown(u.email)

\* C6: print_users(R) prints exactly `No users found.` when R is empty, and
\* otherwise exactly one line per record of R, in order, in the format
\* `id: .., name: .., age: .., email: ..`, and never `No users found.`.
C6_PresenterOutput ==
    (calls # <<>> /\ LastCall.fn = "print_users") =>
        LET R == LastCall.users
        IN  IF R = <<>> THEN out = <<MsgNoUsers>>
            ELSE /\ Len(out) = Len(R)
                 /\ \A i \in 1..Len(R) :
                       out[i] = ExpectedLine(R[i]) /\ out[i] # MsgNoUsers

W6_TwoRecordsOneMissingName ==
    /\ pc = "printed"
    /\ Len(users) = 2
    /\ users[1].name.t = "absent"
    /\ Len(out) = 2

\* C7: with choice age and a non-empty value, a value int() rejects ends the
\* run with the invalid-integer message, no filter call and nothing
\* presented; a value int() accepts makes one call of filter_users_by_age
\* with the parsed integer, whose result goes to the presenter.
C7_AgeValueParsed ==
    (choice = SomeStr(ChoiceAge) /\ value.some /\ value.s # <<>>
        /\ pc \in Terminal) =>
        LET age == ParseInt(value.s)
        IN  /\ IF ~age.ok
               THEN /\ pc = "Ended"
                    /\ out = <<MsgInvalidInt>>
                    /\ calls = <<>>
                    /\ results = <<>>
               ELSE /\ pc = "Done"
                    /\ calls =
                         <<Call("filter_users_by_age", users, <<>>, age.n),
                           Call("print_users", results, <<>>, 0)>>
                    /\ results = filter_users_by_age(users, age.n)
                    /\ out = print_users(results)
            /\ value.s = <<"t", "h", "i", "r", "t", "y">> => pc = "Ended"
            /\ value.s = <<"3", "0">> => (pc = "Done" /\ FilterCall.n = 30)
            /\ value.s = <<"3", "0", ".", "0">> => pc = "Ended"

W7_AgeRunPresentsMatches ==
    /\ pc = "Done"
    /\ choice = SomeStr(ChoiceAge)
    /\ value.s = <<"3", "0">>
    /\ results # <<>>

\* C8: the line read at the choice prompt is accepted exactly when, trimmed
\* and lower-cased, it is name, age or email; any other line (the empty one
\* included) prints the invalid-choice message and ends the run with no
\* value prompt, no filter call and nothing presented.
C8_ChoiceAccepted ==
    (consumed # <<>> /\ ~consumed[1].cancel) =>
        LET c == Lower(Strip(consumed[1].text))
        IN  IF c \in {<<"n", "a", "m", "e">>, <<"a", "g", "e">>, <<"e", "m", "a", "i", "l">>}
            THEN /\ choice = SomeStr(c)
                 /\ pc # "AwaitChoice"
                 /\ \A i \in 1..Len(out) : out[i] # MsgInvalidChoice
            ELSE /\ pc = "Ended"
                 /\ out = <<MsgInvalidChoice>>
                 /\ prompts = <<PromptChoice>>
                 /\ Len(consumed) = 1
                 /\ calls = <<>>
                 /\ exitStatus = 0

W8_MixedCaseChoiceAccepted ==
    /\ pc = "AwaitValue"
    /\ consumed = <<Line(<<" ", "N", "a", "m", "e", " ">>)>>
    /\ choice = SomeStr(ChoiceName)

\* C9: for each of the three choices a value that is empty after trimming
\* ends the run with the no-value message, no filter call and nothing
\* presented; no run calls the name or email filter with the empty string,
\* and no name (email) run presents a record whose name (email) is missing
\* or empty.
C9_EmptyValueNeverFiltered ==
    /\ (Len(consumed) = 2 /\ ~consumed[2].cancel
            /\ Strip(consumed[2].text) = <<>>) =>
          /\ pc = "Ended"
          /\ out = <<MsgNoValue>>
          /\ calls = <<>>
    /\ \A i \in 1..Len(calls) :
          calls[i].fn \in {"filter_users_by_name", "filter_users_by_email"}
              => calls[i].s # <<>>
    /\ (pc = "Done" /\ choice = SomeStr(ChoiceName)) =>
          \A i \in 1..Len(results) :
              results[i].name.t # "absent" /\ results[i].name # StrV(<<>>)
    /\ (pc = "Done" /\ choice = SomeStr(ChoiceEmail)) =>
          \A i \in 1..Len(results) :
              results[i].email.t # "absent" /\ results[i].email # StrV(<<>>)

W9_BlankNameValueEndsRun ==
    /\ pc = "Ended"
    /\ choice = SomeStr(ChoiceName)
    /\ Len(consumed) = 2
    /\ consumed[2] = Line(<<" ", " ", " ">>)
    /\ \E i \in 1..Len(users) : users[i].name.t = "absent"

\* The filter a recorded call names, applied to the collection us
Reapply(c, us) ==
    CASE c.fn = "filter_users_by_name" -> filter_users_by_name(us, c.s)
      [] c.fn = "filter_users_by_age" -> filter_users_by_age(us, c.n)
      [] OTHER -> filter_users_by_email(us, c.s)

\* C10: each filter leaves its input collection as it was, returns an
\* order-preserving subsequence of it, and is idempotent:
\* F(F(U, v), v) = F(U, v).
C10_FiltersPureIdempotent ==
    pc = "returned" =>
        /\ users = FilterCall.users
        /\ IsSubseq(results, users)
        /\ Reapply(FilterCall, results) = results

W10_TwoMatchesReturned ==
    /\ pc = "returned"
    /\ FilterCall.fn = "filter_users_by_name"
    /\ Len(results) = 2
    /\ results[1] # results[2]

====
